---- MODULE Spec2Model ----
(***************************************************************************)
(* Value-bet engine of hmndmn/football-bets: find_value_bets               *)
(* (src/app/markets.py), StakeSizer (src/app/staking.py), the             *)
(* probability extractor market_probs (src/app/model.py) and the /run      *)
(* handler with its spreadsheet (src/app/main.py, src/app/sheets.py).      *)
(*                                                                         *)
(* Numbers.  Python floats are modelled as tagged records                  *)
(*   [k |-> "fin", n |-> numerator, d |-> denominator]   (d > 0)           *)
(*   [k |-> "nan"], [k |-> "pinf"], [k |-> "ninf"]       (IEEE specials)   *)
(*   [k |-> "none"]  Python None,  [k |-> "str"]  non-numeric text,        *)
(*   [k |-> "na"]    pandas NA                                             *)
(* and finite arithmetic is exact rational arithmetic (rounding error of   *)
(* binary floating point is not modelled).                                 *)
(***************************************************************************)
EXTENDS Integers, Sequences, FiniteSets, TLC

VARIABLES
    fixtures,        \* argument `fixtures` of find_value_bets (sequence of rows)
    odds,            \* argument `odds` (sequence of quote rows)
    model_probs,     \* argument `model_probs`: match_id -> model row
    edge_threshold,  \* argument `edge_threshold`
    book_filter,     \* argument `book_filter`
    max_picks,       \* argument `max_picks`
    best,            \* local `odds` after the best-price step (markets.py:119-123)
    picks,           \* the DataFrame find_value_bets returns / StakeSizer.apply receives
    sizer,           \* StakeSizer instance: bankroll, min_pct, max_pct
    staked,          \* the DataFrame StakeSizer.apply returns
    err,             \* "" or the name of the exception that escaped
    cols,            \* the column names of the caller's fixtures and odds tables
    lh, la,          \* arguments of market_probs: expected goals (Poisson means)
    maxg,            \* argument `maxg` (goal cap)
    ou_lines,        \* argument `ou_lines`, each line in half goals
    ah_home_lines,   \* argument `ah_home_lines`, each line in quarter goals
    M,               \* local `M` of market_probs: the outcome table
    d_home,          \* local `d`: _ah_cover_push_probs(M, Lf) of the last line
    out,             \* the dict market_probs returns
    sheet,           \* the spreadsheet: worksheet title -> its content
    quota,           \* what _check_odds_quota told /run, "" before the check
    fetched,         \* the data_sources functions /run has entered
    resp,            \* the response of /run: message kind and status
    pc               \* position: "call" -> "picked" -> "staked" (value bets),
                     \* "recon" -> "recon1" -> "recon2" (best-price step alone),
                     \* "probs" -> "probsdone" (market_probs),
                     \* "table" -> "tabledone" (market_probs from its table on),
                     \* "run" -> "rundone" (the /run handler)

\* the state of the value-bet pipeline and of the probability extractor
valueVars == <<fixtures, odds, model_probs, edge_threshold, book_filter,
               max_picks, best, picks, sizer, staked, err, cols>>
probVars == <<lh, la, maxg, ou_lines, ah_home_lines, M, d_home, out>>

runVars == <<sheet, quota, fetched, resp>>

vars == <<valueVars, probVars, runVars, pc>>

-----------------------------------------------------------------------------
(* Float values *)

Fin(n, d) == [k |-> "fin", n |-> n, d |-> d]

RECURSIVE Gcd(_, _)
Gcd(a, b) == IF b = 0 THEN a ELSE Gcd(b, a % b)

\* the finite value n/d (d > 0) in lowest terms
Rat(n, d) ==
    LET g == Gcd(IF n < 0 THEN -n ELSE n, d)
    IN  Fin(n \div g, d \div g)
NaN       == [k |-> "nan", n |-> 0, d |-> 1]
PosInf    == [k |-> "pinf", n |-> 0, d |-> 1]
NegInf    == [k |-> "ninf", n |-> 0, d |-> 1]
None      == [k |-> "none", n |-> 0, d |-> 1]
Text      == [k |-> "str", n |-> 0, d |-> 1]
NA        == [k |-> "na", n |-> 0, d |-> 1]

IsFin(x) == x.k = "fin"
IsNum(x) == x.k \in {"fin", "nan", "pinf", "ninf"}

\* the values < and <= order: finite numbers and the two infinities
IsOrd(x) == x.k \in {"fin", "pinf", "ninf"}

\* IEEE a < b : false as soon as one side is NaN
Lt(a, b) ==
    IF ~IsOrd(a) \/ ~IsOrd(b) THEN FALSE
    ELSE IF a.k = "pinf" \/ b.k = "ninf" THEN FALSE
    ELSE IF a.k = "ninf" \/ b.k = "pinf" THEN TRUE
    ELSE a.n * b.d < b.n * a.d

\* IEEE a <= b
Le(a, b) == IsOrd(a) /\ IsOrd(b) /\ ~Lt(b, a)

\* IEEE a == b
NumEq(a, b) == Le(a, b) /\ Le(b, a)

\* a - b on finite values and NaN
Sub(a, b) ==
    IF a.k = "nan" \/ b.k = "nan" THEN NaN
    ELSE Rat(a.n * b.d - b.n * a.d, a.d * b.d)

\* a + b on finite values, over the least common denominator
Add(a, b) ==
    LET g == Gcd(a.d, b.d)
    IN  Rat(a.n * (b.d \div g) + b.n * (a.d \div g), (a.d \div g) * b.d)

-----------------------------------------------------------------------------
(* Generic sequence helpers (pandas row operations) *)

Range(s) == {s[i] : i \in 1..Len(s)}

\* DataFrame.head(n) for n >= 0
Head_(s, n) == SubSeq(s, 1, IF n < Len(s) THEN n ELSE Len(s))

\* sort_values(..., ascending=False): NaN last, otherwise non-increasing
DescMayPrecede(a, b) ==
    IF b.k = "nan" THEN TRUE
    ELSE IF a.k = "nan" THEN FALSE
    ELSE Le(b, a)

\* df.sort_values(col, ascending=False): the orders an unstable sort (pandas
\* default kind="quicksort") may return, i.e. every permutation of the rows
\* in which no row comes before a row that must precede it.  Rows with equal
\* keys may come out in any order.
SortedOrders(s, col) ==
    LET n == Len(s)
        perms == {f \in [1..n -> 1..n] : \A i, j \in 1..n : i # j => f[i] # f[j]}
    IN  {[i \in 1..n |-> s[f[i]]] : f \in
            {g \in perms : \A i, j \in 1..n :
                i < j => DescMayPrecede(s[g[i]][col], s[g[j]][col])}}

-----------------------------------------------------------------------------
(* src/app/markets.py *)

REQUIRED_FIXTURE_COLS == {"match_id", "league", "utc_kickoff", "home", "away"}
REQUIRED_ODDS_COLS ==
    {"match_id", "league", "utc_kickoff", "market", "selection", "price",
     "book", "home", "away"}

\* _ensure_cols(df, req) on the column names: every missing required column
\* is added to df itself (markets.py:15-17)
EnsureColNames(names, req) == names \cup req

\* pd.to_numeric(..., errors="coerce") on one cell
ToNumeric(x) == IF IsNum(x) THEN x ELSE NaN

\* _ensure_cols(df, req) on the rows of the odds table: the price column of
\* df itself becomes float (markets.py:19-21)
EnsureCols(df) == [i \in 1..Len(df) |-> [df[i] EXCEPT !.price = ToNumeric(@)]]

\* _implied_prob(price): 1.0 / float(price), None when that raises
\* (ZeroDivisionError at 0.0) or is not finite
ImpliedProb(price) ==
    IF price.k = "fin" /\ price.n > 0 THEN Rat(price.d, price.n)
    ELSE IF price.k = "fin" /\ price.n < 0 THEN Rat(-price.d, -price.n)
    ELSE IF price.k \in {"pinf", "ninf"} THEN Fin(0, 1)
    ELSE None

\* _edge(model_p, price)
Edge(model_p, price) ==
    LET ip == ImpliedProb(price)
    IN  IF model_p.k = "none" \/ ip.k = "none" THEN None
        ELSE Sub(model_p, ip)

\* model_row.get(key, default)
RowGet(row, key, default) == IF key \in DOMAIN row THEN row[key] ELSE default

\* _extract_model_prob(model_row, market, selection); a market string is the
\* pair (pre, suf) of its prefix and the text after it, so that
\* market.startswith("OU") is pre = "OU" and market[2:] is suf
ExtractModelProb(model_row, market, selection) ==
    IF market.pre = "1X2" THEN
        IF selection = "Home" THEN RowGet(model_row, <<"p_H">>, Fin(0, 1))
        ELSE IF selection = "Draw" THEN RowGet(model_row, <<"p_D">>, Fin(0, 1))
        ELSE IF selection = "Away" THEN RowGet(model_row, <<"p_A">>, Fin(0, 1))
        ELSE None
    ELSE IF market.pre = "OU" THEN
        RowGet(model_row, <<"p_OU", market.suf, selection>>, None)
    ELSE IF market.pre = "AH" THEN
        IF selection = "Home" THEN RowGet(model_row, <<"p_H">>, Fin(0, 1))
        ELSE IF selection = "Away" THEN RowGet(model_row, <<"p_A">>, Fin(0, 1))
        ELSE None
    ELSE None

\* _pick_row_common(frow, orow, market, selection, model_p, edge, price);
\* frow is orow (markets.py:138), so utc_kickoff and match_id are the quote's
PickRowCommon(orow, model_p, edge) ==
    [utc_kickoff |-> orow.utc_kickoff,
     market      |-> orow.market,
     selection   |-> orow.selection,
     price       |-> orow.price,
     book        |-> orow.book,
     model_prob  |-> model_p,
     implied     |-> ImpliedProb(orow.price),
     edge        |-> edge,
     match_id    |-> orow.match_id]

\* odds.merge(fixtures[...], on="match_id", how="inner") (markets.py:108-111)
MergeFixtures(od, fx) ==
    SelectSeq(od, LAMBDA q : \E i \in 1..Len(fx) : fx[i].match_id = q.match_id)

\* str.lower().str.contains(bl) on the book names of the model
BookContains(book, bl) ==
    \/ bl = ""
    \/ book = "BookA" /\ bl \in {"book", "booka"}
    \/ book = "BookB" /\ bl \in {"book", "bookb"}

\* the optional book filter (markets.py:114-116)
BookFilter(od, bf) ==
    IF bf = "" THEN od ELSE SelectSeq(od, LAMBDA q : BookContains(q.book, bf))

\* subset of drop_duplicates (markets.py:121)
DedupKey(q) == <<q.match_id, q.market, q.selection>>

\* drop_duplicates(subset=..., keep="first")
RECURSIVE DropDuplicates(_)
DropDuplicates(s) ==
    IF s = <<>> THEN <<>>
    ELSE LET n    == Len(s)
             rest == DropDuplicates(SubSeq(s, 1, n - 1))
         IN  IF \E j \in 1..(n - 1) : DedupKey(s[j]) = DedupKey(s[n])
             THEN rest ELSE Append(rest, s[n])

\* the best-price step losing the first row of its result
BestPriceOrdersLosesRow(od) ==
    {Tail(DropDuplicates(s)) :
        s \in {t \in SortedOrders(od, "price") : t # <<>>}}

\* sort_values("price", ascending=False) then drop_duplicates (markets.py:119-123)
BestPriceOrders(od) ==
    {DropDuplicates(s) :
        s \in SortedOrders(od, "price")}

\* mp_index (markets.py:133) and the loop over the reconciled odds
\* (markets.py:135-152)
RECURSIVE ScanQuotes(_, _, _)
ScanQuotes(b, mp, thr) ==
    IF b = <<>> THEN <<>>
    ELSE LET n    == Len(b)
             rest == ScanQuotes(SubSeq(b, 1, n - 1), mp, thr)
             orow == b[n]
         IN  IF orow.match_id \notin DOMAIN mp THEN rest
             ELSE LET m  == ExtractModelProb(mp[orow.match_id], orow.market,
                                             orow.selection)
                      eg == Edge(m, orow.price)
                  IN  IF eg.k = "none" \/ Lt(eg, thr) THEN rest
                      ELSE Append(rest, PickRowCommon(orow, m, eg))

\* out.replace([inf, -inf], pd.NA) on one cell (markets.py:167)
ReplaceInf(x) == IF x.k \in {"pinf", "ninf"} THEN NA ELSE x

\* markets.py:163-167 on one row
CleanRow(r) ==
    [r EXCEPT !.price = ReplaceInf(@), !.model_prob = ReplaceInf(@),
              !.implied = ReplaceInf(@), !.edge = ReplaceInf(@)]

\* the cap applied before the ranking
RankedOrdersCapFirst(raw, cap) ==
    {[i \in 1..Len(s) |-> CleanRow(s[i])] :
        s \in SortedOrders(Head_(raw, cap), "edge")}

\* markets.py:161-169: sort by edge, cap, clean
RankedOrders(raw, cap) ==
    {[i \in 1..Len(Head_(s, cap)) |-> CleanRow(Head_(s, cap)[i])] :
        s \in SortedOrders(raw, "edge")}

-----------------------------------------------------------------------------
(* src/app/staking.py *)

\* Series.round(2) of the exact value n/d (d > 0), in hundredths:
\* numpy rounds half to even
RoundHalfEven(n, d) ==
    LET q == n \div d
        r == n % d
    IN  IF 2 * r < d THEN q
        ELSE IF 2 * r > d THEN q + 1
        ELSE IF q % 2 = 0 THEN q ELSE q + 1

\* the Kelly fraction with the stake always counted as lost: (b*p - 1) / b
FStarLosesStake(p, price) ==
    IF p.k = "fin" /\ price.k = "fin"
    THEN LET bn == price.n - price.d
             bd == price.d
         IN  Rat(bn * p.n - bd * p.d, p.d * bn)
    ELSE NaN

\* the Kelly fraction (b*p - (1 - p)) / b with b = price - 1 (staking.py:13);
\* NaN as soon as p or price is not finite
FStar(p, price) ==
    IF p.k = "fin" /\ price.k = "fin"
    THEN LET bn == price.n - price.d
             bd == price.d
         IN  Rat(bn * p.n - bd * (p.d - p.n), p.d * bn)
    ELSE NaN

\* Python max(a, b) and min(a, b) of two floats: the first argument unless
\* the second is strictly greater (smaller)
PyMax(a, b) == IF Lt(a, b) THEN b ELSE a
PyMin(a, b) == IF Lt(b, a) THEN b ELSE a

\* x * 0.5
Half(x) == IF x.k = "fin" THEN Rat(x.n, 2 * x.d) ELSE x

\* StakeSizer._kelly_half(p, price); [k |-> "raise"] when float(price) raises
KellyHalfMissingMax(sz, p, price) ==
    IF price.k \in {"na", "none", "str"} THEN [k |-> "raise", n |-> 0, d |-> 1]
    ELSE IF Le(price, Fin(1, 1)) THEN Fin(0, 1)
    ELSE PyMax(Half(PyMax(Fin(0, 1), FStar(p, price))), sz.min_pct)

KellyHalfClampsDegenerate(sz, p, price) ==
    IF price.k \in {"na", "none", "str"} THEN [k |-> "raise", n |-> 0, d |-> 1]
    ELSE IF Le(price, Fin(1, 1))
    THEN PyMin(PyMax(Fin(0, 1), sz.min_pct), sz.max_pct)
    ELSE PyMin(PyMax(Half(PyMax(Fin(0, 1), FStar(p, price))), sz.min_pct),
               sz.max_pct)

KellyHalf(sz, p, price) ==
    IF price.k \in {"na", "none", "str"} THEN [k |-> "raise", n |-> 0, d |-> 1]
    ELSE IF Le(price, Fin(1, 1)) THEN Fin(0, 1)
    ELSE PyMin(PyMax(Half(PyMax(Fin(0, 1), FStar(p, price))), sz.min_pct),
               sz.max_pct)

\* (self.bankroll * out["stake_pct"]).round(2) on one cell (staking.py:23)
StakeAmt(sz, pct) ==
    Fin(RoundHalfEven(100 * sz.bankroll.n * pct.n, sz.bankroll.d * pct.d), 100)

\* one row of StakeSizer.apply (staking.py:22-23)
StakeRow(sz, r) ==
    LET pct == KellyHalf(sz, r.model_prob, r.price)
    IN  [utc_kickoff |-> r.utc_kickoff, market |-> r.market,
         selection |-> r.selection, price |-> r.price, book |-> r.book,
         model_prob |-> r.model_prob, implied |-> r.implied, edge |-> r.edge,
         match_id |-> r.match_id,
         stake_pct |-> pct,
         stake_amt |-> IF pct.k = "fin" THEN StakeAmt(sz, pct) ELSE pct]

\* StakeSizer.apply(picks_df): the rows it returns
ApplyRows(sz, df) == [i \in 1..Len(df) |-> StakeRow(sz, df[i])]

\* whether some row makes _kelly_half raise (float(pd.NA): TypeError)
ApplyRaises(sz, df) ==
    \E i \in 1..Len(df) : KellyHalf(sz, df[i].model_prob, df[i].price).k = "raise"

-----------------------------------------------------------------------------
(* src/app/model.py *)

\* An outcome table M is a record [maxg, den, w]: the cell (i, j), with
\* 0 <= i, j <= maxg, holds the probability w[<<i, j>>] / den that home scores
\* i and away scores j.  Lines are integers: an Over/Under line in half goals,
\* a handicap line in quarter goals.

Cells(T) == (0..T.maxg) \X (0..T.maxg)

\* the sum of the cells of S, in units of 1 / T.den
RECURSIVE SumW(_, _)
SumW(T, S) ==
    IF S = {} THEN 0
    ELSE LET c == CHOOSE x \in S : TRUE
         IN  T.w[c] + SumW(T, S \ {c})

\* the float the loops of _prob_ou_over and _prob_diff accumulate
Prob(T, S) == Rat(SumW(T, S), T.den)

\* _prob_ou_over(M, L), L = h / 2
ProbOuOver(T, h) == Prob(T, {c \in Cells(T) : 2 * (c[1] + c[2]) > h})

\* _prob_diff(M, cmp); cmp is given as the set D of the differences it accepts
ProbDiff(T, D) == Prob(T, {c \in Cells(T) : (c[1] - c[2]) \in D})

\* the goal differences of the table
Diffs(T) == (0 - T.maxg)..T.maxg

\* _ah_cover_push_probs(M, home_line), home_line = k / 4, with the quarter
\* line averaging one of two adjacent lines only
RECURSIVE AhCoverPushLowerOnly(_, _)
AhCoverPushLowerOnly(T, k) ==
    IF k % 2 # 0 THEN AhCoverPushLowerOnly(T, 2 * (k \div 2))
    ELSE IF k % 4 = 0 THEN
        [cover |-> ProbDiff(T, {x \in Diffs(T) : 4 * x > k}),
         push  |-> ProbDiff(T, {k \div 4})]
    ELSE
        [cover |-> ProbDiff(T, {x \in Diffs(T) : 4 * x > k}),
         push  |-> Fin(0, 1)]

\* _ah_cover_push_probs(M, home_line), home_line = k / 4 (model.py:42-75):
\* home_line % 0.5 is nonzero exactly when k is odd; math.floor(home_line*2)/2
\* and math.ceil(home_line*2)/2 are 2*floor(k/2) and 2*ceil(k/2) quarter goals
RECURSIVE AhCoverPushProbs(_, _)
AhCoverPushProbs(T, k) ==
    IF k % 2 # 0 THEN
        LET upper == 2 * (0 - ((0 - k) \div 2))
            lower == 2 * (k \div 2)
            d1    == AhCoverPushProbs(T, lower)
            d2    == AhCoverPushProbs(T, upper)
        IN  [cover |-> Half(Add(d1.cover, d2.cover)),
             push  |-> Half(Add(d1.push, d2.push))]
    ELSE IF k % 4 = 0 THEN
        [cover |-> ProbDiff(T, {x \in Diffs(T) : 4 * x > k}),
         push  |-> ProbDiff(T, {k \div 4})]
    ELSE
        [cover |-> ProbDiff(T, {x \in Diffs(T) : 4 * x > k}),
         push  |-> Fin(0, 1)]

\* how many levels _ah_cover_push_probs recurses for home_line = k / 4
RECURSIVE AhDepth(_)
AhDepth(k) ==
    IF k % 2 # 0
    THEN LET a == AhDepth(2 * (k \div 2))
             b == AhDepth(2 * (0 - ((0 - k) \div 2)))
         IN  1 + (IF a < b THEN b ELSE a)
    ELSE 0

\* f"{Lf}" (model.py:108-109) of an Over/Under line of h half goals
OuLabel(h) ==
    CASE h = 1 -> "0.5"
      [] h = 2 -> "1.0"
      [] h = 3 -> "1.5"
      [] h = 4 -> "2.0"
      [] h = 5 -> "2.5"
      [] h = 6 -> "3.0"
      [] h = 7 -> "3.5"
      [] OTHER -> "0.0"

\* f"{Lf:+g}" (model.py:124-125) of a handicap of L quarter goals
LineLabel(L) ==
    CASE L = -6 -> "-1.5"
      [] L = -5 -> "-1.25"
      [] L = -4 -> "-1"
      [] L = -3 -> "-0.75"
      [] L = -2 -> "-0.5"
      [] L = -1 -> "-0.25"
      [] L = 1  -> "+0.25"
      [] L = 2  -> "+0.5"
      [] L = 3  -> "+0.75"
      [] L = 4  -> "+1"
      [] L = 5  -> "+1.25"
      [] L = 6  -> "+1.5"
      [] OTHER  -> "+0"

\* f"{-Lf:+g}": the negation of 0.0 is -0.0, which formats as "-0"
AwayLabel(L) == IF L = 0 THEN "-0" ELSE LineLabel(0 - L)

\* the 1X2 entries of market_probs (model.py:90-99)
OneXTwo(T) ==
    (<<"p_H">> :> Prob(T, {c \in Cells(T) : c[1] > c[2]})) @@
    (<<"p_D">> :> Prob(T, {c \in Cells(T) : c[1] = c[2]})) @@
    (<<"p_A">> :> Prob(T, {c \in Cells(T) : c[1] < c[2]}))

\* the two entries of one Over/Under line, Under summed over its own cells
OuEntriesUnderCells(T, h) ==
    (<<"p_OU", OuLabel(h), "Over">> :> ProbOuOver(T, h)) @@
    (<<"p_OU", OuLabel(h), "Under">> :>
        Prob(T, {c \in Cells(T) : 2 * (c[1] + c[2]) <= h}))

\* the two entries one Over/Under line adds (model.py:107-109)
OuEntries(T, h) ==
    (<<"p_OU", OuLabel(h), "Over">> :> ProbOuOver(T, h)) @@
    (<<"p_OU", OuLabel(h), "Under">> :> Sub(Fin(1, 1), ProbOuOver(T, h)))

\* the loop over ou_lines (model.py:102-109); a later line overwrites
RECURSIVE OuLoop(_, _)
OuLoop(T, ls) ==
    IF ls = <<>> THEN << >>
    ELSE OuEntries(T, ls[Len(ls)]) @@ OuLoop(T, SubSeq(ls, 1, Len(ls) - 1))

\* the two entries one home handicap adds (model.py:117-127)
AhEntries(T, L) ==
    (<<"p_AH_home_", LineLabel(L)>> :> AhCoverPushProbs(T, L).cover) @@
    (<<"p_AH_away_", AwayLabel(L)>> :> AhCoverPushProbs(T, 0 - L).cover)

\* the largest line of a non-empty set of lines
MaxLine(S) == CHOOSE x \in S : \A y \in S : y <= x

\* the loop over sorted(set(ah_home_lines)) (model.py:112-127)
RECURSIVE AhLoop(_, _)
AhLoop(T, S) ==
    IF S = {} THEN << >>
    ELSE AhEntries(T, MaxLine(S)) @@ AhLoop(T, S \ {MaxLine(S)})

\* the dict market_probs builds from its table M (model.py:90-129)
ProbsOfTable(T, ous, ahs) ==
    AhLoop(T, Range(ahs)) @@ OuLoop(T, ous) @@ OneXTwo(T)

\* local d of market_probs after its last handicap
LastD(T, ahs, before) ==
    IF ahs = <<>> THEN before ELSE AhCoverPushProbs(T, MaxLine(Range(ahs)))

RECURSIVE Factorial(_)
Factorial(n) == IF n = 0 THEN 1 ELSE n * Factorial(n - 1)

RECURSIVE Pow(_, _)
Pow(x, n) == IF n = 0 THEN 1 ELSE x * Pow(x, n - 1)

\* poisson_pmf(lam, k) in units of 1 / (g! * e^lam): lam^k * g! / k!
PmfWeight(lam, k, g) == Pow(lam, k) * (Factorial(g) \div Factorial(k))

\* math.exp(s) in thousandths, rounded down: e^s lies strictly between
\* ExpMilli(s) / 1000 and (ExpMilli(s) + 1) / 1000
ExpMilli(s) ==
    CASE s = 2 -> 7389
      [] s = 3 -> 20085
      [] s = 4 -> 54598
      [] s = 5 -> 148413
      [] s = 6 -> 403428
      [] OTHER -> 1000

\* the two integers that enclose (g!)^2 * e^(lh + la), the common denominator
\* of the cells of score_matrix(lh, la, g)
ScoreDens(lh_, la_, g) ==
    LET f  == Factorial(g) * Factorial(g)
        e  == ExpMilli(lh_ + la_)
        lo == f * (e \div 1000) + (f * (e % 1000)) \div 1000
    IN  {lo, lo + f \div 1000 + 2}

\* score_matrix(lh, la, maxg) (model.py:17-20): np.outer of the two pmf
\* vectors, over the denominator dn
ScoreMatrix(lh_, la_, g, dn) ==
    [maxg |-> g, den |-> dn,
     w |-> [c \in (0..g) \X (0..g) |->
               PmfWeight(lh_, c[1], g) * PmfWeight(la_, c[2], g)]]

-----------------------------------------------------------------------------
(* Inputs of the model *)

\* longest odds table explored
MaxQuotes == 2

\* default of max_picks (markets.py:95)
DefaultMaxPicks == 50

M1X2 == [pre |-> "1X2", suf |-> ""]
MOU25 == [pre |-> "OU", suf |-> "2.5"]
MAH == [pre |-> "AH", suf |-> ""]
MBTTS == [pre |-> "BTTS", suf |-> ""]

\* a quote row; line is <<>> or <<L>> with L the handicap in quarter goals
Quote(mid, ko, mkt, sel, line, price, book) ==
    [match_id |-> mid, utc_kickoff |-> ko, market |-> mkt, selection |-> sel,
     line |-> line, price |-> price, book |-> book]

\* fixtures m1 (kicks off at 2) and m2 (kicks off at 1); m3 has no fixture
FixtureTable ==
    << [match_id |-> "m1", utc_kickoff |-> 2],
       [match_id |-> "m2", utc_kickoff |-> 1] >>

QuoteUniverse ==
    { Quote("m1", 2, M1X2, "Home", <<>>, Fin(210, 100), "BookA"),
      Quote("m1", 2, M1X2, "Home", <<>>, Fin(200, 100), "BookB"),
      Quote("m2", 1, M1X2, "Home", <<>>, Fin(210, 100), "BookA"),
      Quote("m3", 3, M1X2, "Home", <<>>, Fin(210, 100), "BookA"),
      Quote("m1", 2, M1X2, "Home", <<>>, PosInf, "BookB"),
      Quote("m1", 2, M1X2, "Home", <<>>, Text, "BookB"),
      Quote("m1", 2, M1X2, "Draw", <<>>, Fin(210, 100), "BookA"),
      Quote("m1", 2, M1X2, "Draw", <<>>, Fin(0, 100), "BookB"),
      Quote("m1", 2, M1X2, "Away", <<>>, Fin(-200, 100), "BookA"),
      Quote("m1", 2, M1X2, "Away", <<>>, NegInf, "BookB"),
      Quote("m1", 2, MOU25, "Over", <<>>, Fin(210, 100), "BookA"),
      Quote("m1", 2, MAH, "Home", <<-4>>, Fin(300, 100), "BookA"),
      Quote("m1", 2, MAH, "Home", <<4>>, Fin(250, 100), "BookB"),
      Quote("m1", 2, MBTTS, "Yes", <<>>, Fin(210, 100), "BookA"),
      Quote("m2", 1, M1X2, "Away", <<>>, Fin(600, 100), "BookB") }

\* model rows as market_probs keys them (model.py:95-127), with OU line 2.5
\* and home handicaps -1 and +1: P(diff > 1) = 0.30, P(diff > -1) = 0.80
RowFull ==
    (<<"p_H">> :> Fin(55, 100)) @@ (<<"p_D">> :> Fin(25, 100)) @@
    (<<"p_A">> :> Fin(20, 100)) @@
    (<<"p_OU", "2.5", "Over">> :> Fin(55, 100)) @@
    (<<"p_OU", "2.5", "Under">> :> Fin(45, 100)) @@
    (<<"p_AH_home_", "-1">> :> Fin(80, 100)) @@
    (<<"p_AH_away_", "+1">> :> Fin(30, 100)) @@
    (<<"p_AH_home_", "+1">> :> Fin(30, 100)) @@
    (<<"p_AH_away_", "-1">> :> Fin(80, 100))

\* the same columns with missing values (NaN), as a DataFrame built from rows
\* with different keys holds them
RowMissing ==
    (<<"p_H">> :> Fin(55, 100)) @@ (<<"p_D">> :> NaN) @@
    (<<"p_A">> :> Fin(20, 100)) @@
    (<<"p_OU", "2.5", "Over">> :> NaN) @@
    (<<"p_OU", "2.5", "Under">> :> NaN) @@
    (<<"p_AH_home_", "-1">> :> NaN) @@
    (<<"p_AH_away_", "+1">> :> NaN) @@
    (<<"p_AH_home_", "+1">> :> NaN) @@
    (<<"p_AH_away_", "-1">> :> NaN)

\* a row with only the Home and Away columns
RowSparse == (<<"p_H">> :> Fin(55, 100)) @@ (<<"p_A">> :> Fin(20, 100))

ModelTables ==
    { ("m1" :> RowFull) @@ ("m2" :> RowFull),
      ("m1" :> RowMissing) @@ ("m2" :> RowFull),
      ("m1" :> RowSparse),
      << >> }

Thresholds == {Fin(0, 100), Fin(5, 100), Fin(8, 100)}

DefaultSizer ==
    [bankroll |-> Fin(500, 1), min_pct |-> Fin(25, 10000),
     max_pct |-> Fin(250, 10000)]

OddsTables == UNION {[1..n -> QuoteUniverse] : n \in 0..MaxQuotes}

\* the columns of the rows above alone, and with league, home and away
BareCols ==
    [fixtures |-> {"match_id", "utc_kickoff"},
     odds     |-> {"match_id", "utc_kickoff", "market", "selection", "line",
                   "price", "book"}]
FullCols ==
    [fixtures |-> REQUIRED_FIXTURE_COLS,
     odds     |-> REQUIRED_ODDS_COLS \cup {"line"}]

\* no table yet, no cover/push dict yet
EmptyTable == [maxg |-> 0, den |-> 1, w |-> [c \in {<<0, 0>>} |-> 0]]
NoCover == [cover |-> None, push |-> None]

\* market_probs not in use
ProbsIdle ==
    /\ lh = 0 /\ la = 0 /\ maxg = 0
    /\ ou_lines = <<>> /\ ah_home_lines = <<>>
    /\ M = EmptyTable /\ d_home = NoCover /\ out = << >>

\* no request to /run: no spreadsheet opened, nothing answered
NoResponse == [msg |-> "", status |-> 0]
RunIdle ==
    /\ sheet = << >> /\ quota = "" /\ fetched = {} /\ resp = NoResponse

\* find_value_bets and StakeSizer not in use
ValueIdle ==
    /\ fixtures = FixtureTable
    /\ odds = <<>>
    /\ model_probs = << >>
    /\ edge_threshold = Fin(5, 100)
    /\ book_filter = ""
    /\ max_picks = DefaultMaxPicks
    /\ best = <<>>
    /\ picks = <<>>
    /\ sizer = DefaultSizer
    /\ staked = <<>>
    /\ err = ""
    /\ cols = FullCols

-----------------------------------------------------------------------------
(* The pipeline of main.run: find_value_bets, then StakeSizer.apply *)

Init ==
    /\ fixtures = FixtureTable
    /\ odds \in OddsTables
    /\ model_probs \in ModelTables
    /\ edge_threshold \in Thresholds
    /\ book_filter \in {"", "bookb"}
    /\ max_picks \in {0, 1, DefaultMaxPicks}
    /\ best = <<>>
    /\ picks = <<>>
    /\ sizer = DefaultSizer
    /\ staked = <<>>
    /\ err = ""
    /\ cols \in {BareCols, FullCols}
    /\ ProbsIdle
    /\ RunIdle
    /\ pc = "call"

\* find_value_bets (markets.py:89-169); _ensure_cols works on the caller's
\* tables themselves (markets.py:97-98), every later step on copies
FindValueBets ==
    /\ pc = "call"
    /\ odds' = EnsureCols(odds)
    /\ cols' = [fixtures |-> EnsureColNames(cols.fixtures, REQUIRED_FIXTURE_COLS),
                odds     |-> EnsureColNames(cols.odds, REQUIRED_ODDS_COLS)]
    /\ LET od    == EnsureCols(odds)
           early == Len(od) = 0 \/ Len(fixtures) = 0
           cand  == BookFilter(MergeFixtures(od, fixtures), book_filter)
       IN  \E b \in BestPriceOrders(cand) :
             LET raw == ScanQuotes(b, model_probs, edge_threshold)
             IN  /\ best' = IF early THEN <<>> ELSE b
                 /\ IF early \/ DOMAIN model_probs = {} \/ raw = <<>>
                    THEN picks' = <<>>
                    ELSE picks' \in RankedOrders(raw, max_picks)
    /\ pc' = "picked"
    /\ UNCHANGED <<fixtures, model_probs, edge_threshold, book_filter,
                   max_picks, sizer, staked, err>>
    /\ UNCHANGED probVars
    /\ UNCHANGED runVars

\* StakeSizer.apply (staking.py:18-24)
Apply ==
    /\ pc = "picked"
    /\ IF picks = <<>> THEN staked' = picks /\ err' = err
       ELSE IF ApplyRaises(sizer, picks)
            THEN staked' = staked /\ err' = "TypeError"
            ELSE staked' = ApplyRows(sizer, picks) /\ err' = err
    /\ pc' = "staked"
    /\ UNCHANGED <<fixtures, odds, model_probs, edge_threshold, book_filter,
                   max_picks, best, picks, sizer, cols>>
    /\ UNCHANGED probVars
    /\ UNCHANGED runVars

Next == FindValueBets \/ Apply

Spec == Init /\ [][Next]_vars

-----------------------------------------------------------------------------
(* StakeSizer on its own: every (p, price, bankroll, min_pct, max_pct) *)

StakeProbs ==
    {Fin(0, 100), Fin(25, 100), Fin(50, 100), Fin(55, 100), Fin(100, 100), NaN}

StakePrices ==
    {Fin(210, 100), Fin(125, 100), Fin(400, 100), Fin(100, 100), Fin(50, 100),
     Fin(0, 100), Fin(-200, 100), NegInf, PosInf, NaN, NA,
     Fin(200, 100), Fin(182, 100), Fin(101, 100)}

Sizers ==
    {[bankroll |-> Fin(bk, 1), min_pct |-> Fin(mm[1], 10000),
      max_pct |-> Fin(mm[2], 10000)] :
        bk \in {500, 137},
        mm \in {<<25, 250>>, <<0, 250>>, <<100, 100>>, <<300, 250>>}}

\* a picks table of one row with the given model probability and price
PickTable(p, price) ==
    << [utc_kickoff |-> 2, market |-> M1X2, selection |-> "Home",
        price |-> price, book |-> "BookA", model_prob |-> p,
        implied |-> ImpliedProb(price), edge |-> Edge(p, price),
        match_id |-> "m1"] >>

InitStake ==
    /\ fixtures = FixtureTable
    /\ odds = <<>>
    /\ model_probs = << >>
    /\ edge_threshold = Fin(5, 100)
    /\ book_filter = ""
    /\ max_picks = DefaultMaxPicks
    /\ best = <<>>
    /\ picks \in {<<>>} \cup {PickTable(p, q) : p \in StakeProbs, q \in StakePrices}
    /\ sizer \in Sizers
    /\ staked = <<>>
    /\ err = ""
    /\ cols = FullCols
    /\ ProbsIdle
    /\ RunIdle
    /\ pc = "picked"

SpecStake == InitStake /\ [][Apply]_vars

-----------------------------------------------------------------------------
(* The best-price step on its own, applied twice *)

\* the quotes find_value_bets holds at markets.py:119, prices already numeric
InitRecon ==
    /\ fixtures = FixtureTable
    /\ odds \in {EnsureCols(t) : t \in OddsTables}
    /\ model_probs = << >>
    /\ edge_threshold = Fin(5, 100)
    /\ book_filter = ""
    /\ max_picks = DefaultMaxPicks
    /\ best = <<>>
    /\ picks = <<>>
    /\ sizer = DefaultSizer
    /\ staked = <<>>
    /\ err = ""
    /\ cols = FullCols
    /\ ProbsIdle
    /\ RunIdle
    /\ pc = "recon"

\* markets.py:119-123 on the quotes (first pass) or on its own result
Reconcile ==
    /\ pc \in {"recon", "recon1"}
    /\ best' \in BestPriceOrders(IF pc = "recon" THEN odds ELSE best)
    /\ pc' = IF pc = "recon" THEN "recon1" ELSE "recon2"
    /\ UNCHANGED <<fixtures, odds, model_probs, edge_threshold, book_filter,
                   max_picks, picks, sizer, staked, err, cols>>
    /\ UNCHANGED probVars
    /\ UNCHANGED runVars

SpecRecon == InitRecon /\ [][Reconcile]_vars

-----------------------------------------------------------------------------
(* market_probs *)

\* largest goal count of the arbitrary outcome tables, and their denominator
TableGoals == 2
TableDen == 4

\* every table of cells 0 or 1/TableDen whose mass is at most 1
Tables ==
    {T \in [maxg : {TableGoals}, den : {TableDen},
            w : [(0..TableGoals) \X (0..TableGoals) -> {0, 1}]] :
        SumW(T, Cells(T)) <= TableDen}

\* requested lines: Over/Under in half goals, handicaps in quarter goals
OuChoices == {<<6>>, <<3, 5>>}
AhChoices == {<<>>} \cup {<<k>> : k \in (0 - 6)..6}

\* expected goals and goal caps of the Poisson tables
Lambdas == {1, 2, 3}
GoalCaps == {5, 6}

\* market_probs(lh, la, maxg, ou_lines, ah_home_lines) about to be called
InitProbs ==
    /\ ValueIdle
    /\ RunIdle
    /\ lh \in Lambdas /\ la \in Lambdas /\ maxg \in GoalCaps
    /\ ou_lines \in OuChoices
    /\ ah_home_lines \in {<<>>, <<0 - 4>>, <<0>>, <<2, 0 - 2>>}
    /\ M = EmptyTable /\ d_home = NoCover /\ out = << >>
    /\ pc = "probs"

\* market_probs (model.py:77-129)
MarketProbs ==
    /\ pc = "probs"
    /\ \E dn \in ScoreDens(lh, la, maxg) :
           M' = ScoreMatrix(lh, la, maxg, dn)
    /\ out' = ProbsOfTable(M', ou_lines, ah_home_lines)
    /\ d_home' = LastD(M', ah_home_lines, d_home)
    /\ pc' = "probsdone"
    /\ UNCHANGED <<lh, la, maxg, ou_lines, ah_home_lines>>
    /\ UNCHANGED valueVars
    /\ UNCHANGED runVars

SpecProbs == InitProbs /\ [][MarketProbs]_vars

\* the body of market_probs about to run on an arbitrary outcome table M
InitTable ==
    /\ ValueIdle
    /\ RunIdle
    /\ lh = 0 /\ la = 0 /\ maxg = TableGoals
    /\ ou_lines \in OuChoices
    /\ ah_home_lines \in AhChoices
    /\ M \in Tables
    /\ d_home = NoCover /\ out = << >>
    /\ pc = "table"

\* market_probs from its table on (model.py:90-129)
TableProbs ==
    /\ pc = "table"
    /\ out' = ProbsOfTable(M, ou_lines, ah_home_lines)
    /\ d_home' = LastD(M, ah_home_lines, d_home)
    /\ pc' = "tabledone"
    /\ UNCHANGED <<lh, la, maxg, ou_lines, ah_home_lines, M>>
    /\ UNCHANGED valueVars
    /\ UNCHANGED runVars

SpecTable == InitTable /\ [][TableProbs]_vars

-----------------------------------------------------------------------------
(* The /run handler and the spreadsheet *)

\* the worksheets /run reads when it skips, in the order of main.py:82-89
SkipTabs == <<"fixtures", "odds", "model_probs", "picks">>

\* the worksheets /run and /view name
SheetTabs == {"fixtures", "odds", "model_probs", "picks", "summary"}

\* a worksheet's content is the number of rows ws.get_all_values() returns:
\* none (a worksheet as add_worksheet leaves it), a header alone, or a
\* header and data rows
BlankWs == 0
WsContents == {BlankWs, 1, 3}

\* the spreadsheets gc.open can find: any of the tabs may be missing
Spreadsheets == UNION {[T -> WsContents] : T \in SUBSET SheetTabs}

\* what _check_odds_quota returns: "ok" for status 200, else no API key,
\* another HTTP status, or a request that raised
QuotaResults == {"ok", "MISSING_API_KEY", "http_status", "exception"}

\* SheetClient._get_or_create_ws: the spreadsheet after the call; `api` is
\* whether the Sheets API answered (an error other than WorksheetNotFound
\* escapes from sh.worksheet, any error from add_worksheet)
GetOrCreateWs(sh, tab, api) ==
    IF tab \in DOMAIN sh \/ ~api THEN sh
    ELSE [t \in DOMAIN sh \cup {tab} |-> IF t = tab THEN BlankWs ELSE sh[t]]

\* SheetClient.read_table: the number of rows of the frame it returns
ReadTableLen(sh, tab) ==
    LET values == GetOrCreateWs(sh, tab, TRUE)[tab]
    IN  IF values = 0 THEN 0 ELSE values - 1

\* one guarded read of main.py:82-89: the length of the frame /run keeps,
\* an empty frame when read_table raised
GuardedLen(sh, tab, api) == IF api THEN ReadTableLen(sh, tab) ELSE 0

\* the spreadsheet after the guarded reads of the tabs `ts`, apis[i] telling
\* whether the i-th read reached the Sheets API
RECURSIVE ReadTables(_, _, _)
ReadTables(sh, ts, apis) ==
    IF ts = <<>> THEN sh
    ELSE ReadTables(GetOrCreateWs(sh, Head(ts), Head(apis)),
                    Tail(ts), Tail(apis))

\* the answers of /run
SkipResponse(rows) == [msg |-> "SKIP", status |-> 200, rows |-> rows]
ServerError == [msg |-> "Internal Server Error", status |-> 500]

\* a request to /run is about to be handled
InitRun ==
    /\ ValueIdle
    /\ ProbsIdle
    /\ sheet \in Spreadsheets
    /\ quota = "" /\ fetched = {} /\ resp = NoResponse
    /\ pc = "run"

\* run (main.py:64-184).  SheetClient(sheet_name) may raise before the quota
\* check.  With quota left, fetch_fixtures runs and the call
\* fetch_odds(fixtures, hours_ahead=...) at main.py:100 lacks the required
\* fixtures_df of data_sources.py:38-42: TypeError escapes the handler before
\* any write_table
Run ==
    /\ pc = "run"
    /\ \E opened \in BOOLEAN, q \in QuotaResults,
          apis \in [1..Len(SkipTabs) -> BOOLEAN] :
         IF ~opened
         THEN /\ sheet' = sheet /\ quota' = quota /\ fetched' = fetched
              /\ resp' = ServerError
         ELSE IF q # "ok"
         THEN /\ sheet' = ReadTables(sheet, SkipTabs, apis)
              /\ quota' = q
              /\ fetched' = fetched
              /\ resp' = SkipResponse(
                     [i \in 1..Len(SkipTabs) |->
                         GuardedLen(sheet, SkipTabs[i], apis[i])])
         ELSE /\ sheet' = sheet
              /\ quota' = q
              /\ fetched' = fetched \cup {"fetch_fixtures"}
              /\ resp' = ServerError
    /\ pc' = "rundone"
    /\ UNCHANGED valueVars
    /\ UNCHANGED probVars

SpecRun == InitRun /\ [][Run]_vars

-----------------------------------------------------------------------------
(* Vocabulary of the properties *)

Returned == pc # "call"

\* the quotes that enter the best-price step of find_value_bets
ReconInput == BookFilter(MergeFixtures(EnsureCols(odds), fixtures), book_filter)

\* the signature the specification gives a quote (side is the selection of
\* an AH quote)
Signature(q) == <<q.match_id, q.market, q.selection, q.line>>

\* the rows of the returned table that come from quote q
PicksOf(q) ==
    {i \in 1..Len(picks) :
        /\ picks[i].match_id = q.match_id
        /\ picks[i].market = q.market
        /\ picks[i].selection = q.selection}

\* the model-set key the specification matches a quote against
ModelKey(q) ==
    IF q.market.pre = "1X2" THEN
        IF q.selection = "Home" THEN <<"p_H">>
        ELSE IF q.selection = "Draw" THEN <<"p_D">> ELSE <<"p_A">>
    ELSE IF q.market.pre = "OU" THEN <<"p_OU", q.market.suf, q.selection>>
    ELSE IF q.market.pre = "AH" THEN
        IF q.selection = "Home" THEN <<"p_AH_home_", LineLabel(q.line[1])>>
        ELSE <<"p_AH_away_", LineLabel(q.line[1])>>
    ELSE <<"p_BTTS", q.selection>>

\* the row holds no probability under the key: absent, or a missing value
HoldsNoProb(row, key) == key \notin DOMAIN row \/ row[key].k # "fin"

\* exact rational product and quotient (b # 0)
Mul(a, b) == Rat(a.n * b.n, a.d * b.d)
Div(a, b) == IF b.n > 0 THEN Rat(a.n * b.d, a.d * b.n)
             ELSE Rat(-(a.n * b.d), -(a.d * b.n))

\* clamp(x, lo, hi) for lo <= hi
Clamp(x, lo, hi) == IF Lt(x, lo) THEN lo ELSE IF Lt(hi, x) THEN hi ELSE x

\* 0.5 * max(0, f*) with f* = (b*p - (1 - p)) / b and b = price - 1
HalfKellyOfClaim(p, price) ==
    LET b  == Sub(price, Fin(1, 1))
        f  == Div(Sub(Mul(b, p), Sub(Fin(1, 1), p)), b)
        f0 == IF Lt(f, Fin(0, 1)) THEN Fin(0, 1) ELSE f
    IN  Mul(Fin(1, 2), f0)

\* the rows StakeSizer.apply sized whose inputs are in the domain of C9
InStakeDomain(i) ==
    /\ IsFin(picks[i].model_prob) /\ IsFin(picks[i].price)
    /\ Le(Fin(0, 1), picks[i].model_prob) /\ Le(picks[i].model_prob, Fin(1, 1))
    /\ Lt(Fin(1, 1), picks[i].price)
    /\ Le(sizer.min_pct, sizer.max_pct)

\* stake_pct of row i is the clamped half-Kelly fraction, within [min, max]
StakePctAsClaimed(i) ==
    /\ IsFin(staked[i].stake_pct)
    /\ NumEq(staked[i].stake_pct,
             Clamp(HalfKellyOfClaim(picks[i].model_prob, picks[i].price),
                   sizer.min_pct, sizer.max_pct))
    /\ Le(sizer.min_pct, staked[i].stake_pct)
    /\ Le(staked[i].stake_pct, sizer.max_pct)

\* the rows StakeSizer.apply sized with a probability in [0, 1] and a finite
\* price above 1
InKellyDomain(i) ==
    /\ IsFin(picks[i].model_prob) /\ IsFin(picks[i].price)
    /\ Le(Fin(0, 1), picks[i].model_prob) /\ Le(picks[i].model_prob, Fin(1, 1))
    /\ Lt(Fin(1, 1), picks[i].price)

\* f* = (b*p - (1 - p)) / b with b = price - 1, for price # 1
KellyOfClaim(p, price) ==
    LET b == Sub(price, Fin(1, 1))
    IN  Div(Sub(Mul(b, p), Sub(Fin(1, 1), p)), b)

\* the total mass of an outcome table
Mass(T) == Prob(T, Cells(T))

\* |x| <= 1e-6 for a finite x
WithinMillionth(x) ==
    IsFin(x) /\ (IF x.n < 0 THEN 0 - x.n ELSE x.n) <= x.d \div 1000000

\* the key of the both-teams-to-score probability of a selection
BttsKey(sel) == <<"p_BTTS", sel>>

\* the picks find_value_bets accepted (markets.py:135-152), before ranking
Accepted == ScanQuotes(best, model_probs, edge_threshold)

\* the one-to-one maps from the positions 1..m into the positions 1..n
Injections(m, n) ==
    {f \in [1..m -> 1..n] : \A i, j \in 1..m : i # j => f[i] # f[j]}

-----------------------------------------------------------------------------
(* Properties *)

\* C1: every returned pick has a defined edge = model probability - 1/price
\* with edge >= edge_threshold (a quote whose edge is below the threshold or
\* undefined is never returned).
C1_PicksMeetThreshold ==
    Returned =>
        \A i \in 1..Len(picks) :
            /\ IsFin(picks[i].edge)
            /\ NumEq(picks[i].edge, Sub(picks[i].model_prob, picks[i].implied))
            /\ IsFin(picks[i].price) =>
                   /\ picks[i].price.n # 0
                   /\ NumEq(picks[i].implied, Div(Fin(1, 1), picks[i].price))
            /\ Le(edge_threshold, picks[i].edge)

\* C1 holds of the picks whose model probability is a number
C1_NumericPicksMeetThreshold ==
    Returned =>
        \A i \in 1..Len(picks) :
            IsFin(picks[i].model_prob) =>
                /\ IsFin(picks[i].edge)
                /\ NumEq(picks[i].edge,
                         Sub(picks[i].model_prob, picks[i].implied))
                /\ IsFin(picks[i].price) =>
                       /\ picks[i].price.n # 0
                       /\ NumEq(picks[i].implied,
                                Div(Fin(1, 1), picks[i].price))
                /\ Le(edge_threshold, picks[i].edge)

\* C2: after the best-price step every signature (match, market, selection,
\* side, line) of the input quotes has exactly one surviving quote, and no
\* input quote of that signature has a higher price.
C2_OneBestPerSignature ==
    (Returned /\ odds # <<>>) =>
        \A q \in Range(ReconInput) :
            /\ Cardinality({i \in 1..Len(best) :
                               Signature(best[i]) = Signature(q)}) = 1
            /\ \A i \in 1..Len(best) :
                   Signature(best[i]) = Signature(q) => ~Lt(best[i].price, q.price)

\* C3: a quote with price <= 1.0 is never the best quote of its group and
\* never appears in the returned picks.
C3_NoPriceAtMostOne ==
    Returned =>
        /\ \A i \in 1..Len(best) : ~Le(best[i].price, Fin(1, 1))
        /\ \A i \in 1..Len(picks) : ~Le(picks[i].price, Fin(1, 1))

\* C4: a quote with a non-finite price never wins its group over a
\* finite-priced quote and never produces a pick.
C4_NonFiniteExcluded ==
    (Returned /\ odds # <<>>) =>
        /\ \A i \in 1..Len(best) :
               ~IsFin(best[i].price) =>
                   \A q \in Range(ReconInput) :
                       DedupKey(q) = DedupKey(best[i]) => ~IsFin(q.price)
        /\ \A i \in 1..Len(best) :
               ~IsFin(best[i].price) => PicksOf(best[i]) = {}

\* C5: a best quote whose fixture has a model row that holds no probability
\* under the quote's (market, selection, line) key yields no pick.
C5_NoProbNoPick ==
    Returned =>
        \A i \in 1..Len(best) :
            (/\ best[i].match_id \in DOMAIN model_probs
             /\ HoldsNoProb(model_probs[best[i].match_id], ModelKey(best[i])))
                => PicksOf(best[i]) = {}

\* C6: the model probability of a pick on an Asian Handicap quote with side
\* s and line L is the row's p_AH_{s}_{L}.
C6_AHUsesCoverProb ==
    Returned =>
        \A i \in 1..Len(best) :
            best[i].market.pre = "AH" =>
                \A j \in PicksOf(best[i]) :
                    /\ ModelKey(best[i]) \in DOMAIN model_probs[best[i].match_id]
                    /\ NumEq(picks[j].model_prob,
                             model_probs[best[i].match_id][ModelKey(best[i])])

\* C7: the returned picks are in non-increasing order of edge.
C7_SortedByEdge ==
    Returned =>
        \A i \in 1..(Len(picks) - 1) : Le(picks[i + 1].edge, picks[i].edge)

\* C7 holds between consecutive picks whose edges are both numbers
C7_SortedByEdgeAmongNumbers ==
    Returned =>
        \A i \in 1..(Len(picks) - 1) :
            (IsFin(picks[i].edge) /\ IsFin(picks[i + 1].edge)) =>
                Le(picks[i + 1].edge, picks[i].edge)

\* C8: of two returned picks with equal edge, the one with the earlier
\* kickoff comes first.
C8_TiesByKickoff ==
    Returned =>
        \A i, j \in 1..Len(picks) :
            (i < j /\ NumEq(picks[i].edge, picks[j].edge)) =>
                picks[i].utc_kickoff <= picks[j].utc_kickoff

\* C9 as stated: for p in [0,1], price > 1 and min_pct <= max_pct, stake_pct
\* is clamp(0.5 * max(0, f*), min_pct, max_pct), lies in [min_pct, max_pct],
\* and stake_amt = bankroll * stake_pct.
C9_StakeExact ==
    (pc = "staked" /\ err = "") =>
        \A i \in 1..Len(picks) :
            InStakeDomain(i) =>
                /\ StakePctAsClaimed(i)
                /\ NumEq(staked[i].stake_amt,
                         Mul(sizer.bankroll, staked[i].stake_pct))

\* C9 amended: as C9, with stake_amt = bankroll * stake_pct rounded to two
\* decimals (a whole number of hundredths within half a hundredth of it).
C9_StakeRounded ==
    (pc = "staked" /\ err = "") =>
        \A i \in 1..Len(picks) :
            InStakeDomain(i) =>
                /\ StakePctAsClaimed(i)
                /\ IsFin(staked[i].stake_amt)
                /\ (100 * staked[i].stake_amt.n) % staked[i].stake_amt.d = 0
                /\ LET exact == Mul(sizer.bankroll, staked[i].stake_pct)
                       diff  == Sub(staked[i].stake_amt, exact)
                   IN  /\ Le(diff, Fin(1, 200))
                       /\ Le(Fin(-1, 200), diff)

\* a sized row of the domain whose fraction lies strictly inside
\* (min_pct, max_pct) and whose amount the rounding changed
C9_Witness ==
    /\ pc = "staked" /\ err = "" /\ Len(picks) = 1
    /\ InStakeDomain(1)
    /\ Lt(sizer.min_pct, staked[1].stake_pct)
    /\ Lt(staked[1].stake_pct, sizer.max_pct)
    /\ ~NumEq(staked[1].stake_amt, Mul(sizer.bankroll, staked[1].stake_pct))

\* C10: when price - 1 <= 0 the sizer returns stake fraction 0 and stake
\* amount 0 and does not raise, whatever p, min_pct and max_pct.
C10_ZeroStakeAtNoOdds ==
    pc = "staked" =>
        \A i \in 1..Len(picks) :
            Le(picks[i].price, Fin(1, 1)) =>
                /\ err = ""
                /\ Len(staked) = Len(picks)
                /\ NumEq(staked[i].stake_pct, Fin(0, 1))
                /\ NumEq(staked[i].stake_amt, Fin(0, 1))

\* a sized row with price < 1, a positive model probability and min_pct > 0
C10_Witness ==
    /\ pc = "staked" /\ Len(picks) = 1 /\ Len(staked) = 1
    /\ IsFin(picks[1].price) /\ Lt(picks[1].price, Fin(1, 1))
    /\ Lt(Fin(0, 1), picks[1].model_prob)
    /\ Lt(Fin(0, 1), sizer.min_pct)
    /\ staked[1].stake_pct.n = 0

\* C11: when price > 1 and the Kelly fraction f* is <= 0, the sizer
\* recommends no stake: stake_pct = 0 and stake_amt = 0, also when
\* min_pct > 0.
C11_NoStakeWithoutKelly ==
    (pc = "staked" /\ err = "") =>
        \A i \in 1..Len(picks) :
            (/\ InKellyDomain(i)
             /\ Le(KellyOfClaim(picks[i].model_prob, picks[i].price), Fin(0, 1)))
                => /\ NumEq(staked[i].stake_pct, Fin(0, 1))
                   /\ NumEq(staked[i].stake_amt, Fin(0, 1))

C13_AwayCoverIsComplement ==
    (pc = "tabledone" /\ Len(ah_home_lines) = 1) =>
        LET L == ah_home_lines[1]
        IN  L % 2 = 0 =>
                /\ <<"p_AH_away_", AwayLabel(L)>> \in DOMAIN out
                /\ NumEq(out[<<"p_AH_away_", AwayLabel(L)>>],
                         Sub(Sub(Mass(M), d_home.cover), d_home.push))

\* C14: at a quarter line L = k/4 (k odd) _ah_cover_push_probs returns the
\* mean of the covers, and the mean of the pushes, at L - 0.25 and L + 0.25,
\* which are whole or half lines, so that it recurses exactly one level.
C14_QuarterLineIsMean ==
    (pc = "tabledone" /\ Len(ah_home_lines) = 1) =>
        LET k == ah_home_lines[1]
        IN  k % 2 # 0 =>
                /\ NumEq(d_home.cover,
                         Half(Add(AhCoverPushProbs(M, k - 1).cover,
                                  AhCoverPushProbs(M, k + 1).cover)))
                /\ NumEq(d_home.push,
                         Half(Add(AhCoverPushProbs(M, k - 1).push,
                                  AhCoverPushProbs(M, k + 1).push)))
                /\ NumEq(out[<<"p_AH_home_", LineLabel(k)>>], d_home.cover)
                /\ AhDepth(k - 1) = 0 /\ AhDepth(k + 1) = 0 /\ AhDepth(k) = 1

\* a quarter line between two lines of different cover, one of them a whole
\* line with a positive push
C14_Witness ==
    /\ pc = "tabledone" /\ Len(ah_home_lines) = 1
    /\ ah_home_lines[1] % 2 # 0
    /\ ah_home_lines[1] < 0
    /\ Lt(Fin(0, 1), d_home.push)
    /\ Lt(AhCoverPushProbs(M, ah_home_lines[1] + 1).cover, d_home.cover)
    /\ Lt(d_home.cover, AhCoverPushProbs(M, ah_home_lines[1] - 1).cover)

\* C15: for every table, also one of mass below 1, and every requested line
\* L, Over(L) is the sum of the cells with i + j > L and Over(L) + Under(L)
\* is 1.
C15_OverUnderSumToOne ==
    pc = "tabledone" =>
        \A i \in 1..Len(ou_lines) :
            LET h     == ou_lines[i]
                over  == <<"p_OU", OuLabel(h), "Over">>
                under == <<"p_OU", OuLabel(h), "Under">>
            IN  /\ over \in DOMAIN out /\ under \in DOMAIN out
                /\ NumEq(out[over],
                         Prob(M, {c \in Cells(M) : 2 * (c[1] + c[2]) > h}))
                /\ NumEq(Add(out[over], out[under]), Fin(1, 1))

\* a table of mass below 1 with some mass over and some mass under line 2.5
C15_Witness ==
    /\ pc = "tabledone"
    /\ ou_lines = <<3, 5>>
    /\ Lt(Mass(M), Fin(1, 1))
    /\ Lt(Fin(0, 1), out[<<"p_OU", "2.5", "Over">>])
    /\ Lt(Fin(0, 1), Prob(M, {c \in Cells(M) : 2 * (c[1] + c[2]) <= 5}))
    /\ Lt(out[<<"p_OU", "2.5", "Over">>], out[<<"p_OU", "1.5", "Over">>])

\* C16: for rates > 0 and goal_cap >= 5 the Home, Draw and Away
\* probabilities market_probs returns sum to 1 within 1e-6.
C16_OneXTwoSumsToOne ==
    (pc = "probsdone" /\ lh > 0 /\ la > 0 /\ maxg >= 5) =>
        WithinMillionth(
            Sub(Add(Add(out[<<"p_H">>], out[<<"p_D">>]), out[<<"p_A">>]),
                Fin(1, 1)))

\* C17: the dict market_probs returns holds both-teams-to-score
\* probabilities, Yes = 1 - P(home=0) - P(away=0) + P(home=0 and away=0) and
\* No = 1 - Yes, and find_value_bets' extractor matches a BTTS quote to them.
C17_BttsProbabilities ==
    pc = "probsdone" =>
        /\ BttsKey("Yes") \in DOMAIN out /\ BttsKey("No") \in DOMAIN out
        /\ NumEq(out[BttsKey("Yes")],
                 Add(Sub(Sub(Fin(1, 1), Prob(M, {c \in Cells(M) : c[1] = 0})),
                         Prob(M, {c \in Cells(M) : c[2] = 0})),
                     Prob(M, {<<0, 0>>})))
        /\ NumEq(out[BttsKey("No")], Sub(Fin(1, 1), out[BttsKey("Yes")]))
        /\ NumEq(Add(out[BttsKey("Yes")], out[BttsKey("No")]), Fin(1, 1))
        /\ NumEq(ExtractModelProb(out, MBTTS, "Yes"), out[BttsKey("Yes")])
        /\ NumEq(ExtractModelProb(out, MBTTS, "No"), out[BttsKey("No")])

\* C18: the best-price step applied to its own result returns the same set
\* of quotes.
C18_ReconcileIdempotent ==
    [][(pc = "recon1" /\ pc' = "recon2") =>
           (Range(best') = Range(best) /\ Len(best') = Len(best))]_vars

\* the step ran twice and its first pass had dropped a quote
C18_Witness ==
    /\ pc = "recon2"
    /\ Len(odds) = 2
    /\ Len(best) = 1

\* C19: find_value_bets leaves its arguments as they were: the caller's
\* fixtures, odds and model_probs keep their columns and their cell values.
C19_ArgumentsUntouched ==
    [][pc = "call" =>
           (/\ fixtures' = fixtures
            /\ odds' = odds
            /\ model_probs' = model_probs
            /\ cols' = cols)]_vars

\* C20: with max_picks = n >= 0, find_value_bets returns min(n, number of
\* accepted picks) picks, and no accepted pick left out has a higher edge
\* than a returned one (the cap comes after the ranking).
C20_CapAfterRanking ==
    Returned =>
        /\ Len(picks) <= max_picks
        /\ Len(picks) = (IF Len(Accepted) < max_picks THEN Len(Accepted)
                         ELSE max_picks)
        /\ \E f \in Injections(Len(picks), Len(Accepted)) :
               /\ \A i \in 1..Len(picks) : picks[i] = CleanRow(Accepted[f[i]])
               /\ \A i \in 1..Len(picks) :
                      \A j \in (1..Len(Accepted)) \ {f[k] : k \in 1..Len(picks)} :
                          DescMayPrecede(Accepted[f[i]].edge, Accepted[j].edge)

\* two picks accepted, the one of lower edge first, and the cap of 1 kept
\* the other
C20_Witness ==
    /\ pc = "picked"
    /\ max_picks = 1
    /\ Len(Accepted) = 2
    /\ IsFin(Accepted[1].price) /\ Lt(Fin(1, 1), Accepted[1].price)
    /\ IsFin(Accepted[2].price) /\ Lt(Fin(1, 1), Accepted[2].price)
    /\ Lt(Accepted[1].edge, Accepted[2].edge)
    /\ Len(picks) = 1
    /\ NumEq(picks[1].edge, Accepted[2].edge)

\* C21: when the quota check at the start of /run fails, the run fetches no
\* fixtures and no odds, leaves the spreadsheet as it was (no tab created,
\* cleared or written, the previous contents kept) and answers SKIP with
\* status 200.
\* Fails: read_table goes through _get_or_create_ws, which adds a blank
\* worksheet for every tab the spreadsheet lacks.
QuotaFailed == quota \notin {"", "ok"}
C21_SkipLeavesSheetUnchanged ==
    [][(pc = "run" /\ QuotaFailed')
          => /\ sheet' = sheet
             /\ fetched' = {}
             /\ resp'.msg = "SKIP" /\ resp'.status = 200]_vars

\* what does hold of a skipped run: nothing is fetched, every worksheet that
\* existed keeps its content, a worksheet that appears is a blank one of the
\* four tabs read, and the answer is SKIP with status 200
C21_SkipKeepsExistingTabs ==
    [][(pc = "run" /\ QuotaFailed')
          => /\ DOMAIN sheet \subseteq DOMAIN sheet'
             /\ \A t \in DOMAIN sheet : sheet'[t] = sheet[t]
             /\ \A t \in DOMAIN sheet' \ DOMAIN sheet :
                    t \in Range(SkipTabs) /\ sheet'[t] = BlankWs
             /\ fetched' = {}
             /\ resp'.msg = "SKIP" /\ resp'.status = 200]_vars

\* a skipped run on a spreadsheet that has all four tabs changes nothing
C21_SkipOnCompleteSheet ==
    [][(pc = "run" /\ QuotaFailed' /\ Range(SkipTabs) \subseteq DOMAIN sheet)
          => sheet' = sheet]_vars

\* a skipped run has been answered
C21_SkipReached == pc = "rundone" /\ QuotaFailed

=============================================================================
